---- MODULE Spec2Model ----
(***************************************************************************)
(* A model of the venue-booking application (Django app "main"):          *)
(* booking submissions (BookingForm.clean + BookingCreateView.post),      *)
(* review upsert, wishlist toggle, the price calculator                   *)
(* (Booking.total_price), the slug generator (Venue.save) and the         *)
(* catalogue filter (VenueListBaseView.get_queryset).                     *)
(*                                                                         *)
(* Dates are day numbers, times of day are small integers (slots) in the  *)
(* request model and seconds in the price model, money is in cents.       *)
(***************************************************************************)
EXTENDS Integers, Sequences, FiniteSets, TLC

VARIABLES
    today,      \* date.today() as seen by the server
    bookings,   \* rows of main_booking (with the m2m add_ons folded in)
    reviews,    \* rows of main_review
    wishlist,   \* rows of main_wishlistitem
    venues,     \* rows of main_venue: pk, name, slug
    request,    \* the submission under test (single-submission specification)
    response,   \* what the handler of the last request answered
    handled,    \* the number of requests handled so far
    procs,      \* in-flight booking submissions (concurrent specification)
    priced      \* the booking priced last and the value of total_price()

vars == <<today, bookings, reviews, wishlist, venues, request, response, handled, procs, priced>>

----------------------------------------------------------------------------
(* Bounds of the model *)

MaxDate == 1
MaxTime == 2
MaxRequests == 2

Dates == 0..MaxDate
Times == 0..MaxTime

Users == {"u1", "u2"}

(* The venues of the catalogue, addressed by slug; "v0" is a slug no venue has *)
VenueSlugs == {"v1", "v2"}
RequestSlugs == VenueSlugs \cup {"v0"}

(* One add-on per venue *)
AddOns == {"a1", "a2"}

AddOnVenue(a) == IF a = "a1" THEN "v1" ELSE "v2"

(* venue.add_ons.all() *)
VenueAddOns(v) == {a \in AddOns : AddOnVenue(a) = v}

----------------------------------------------------------------------------
(* Booking.Status *)

PENDING == "pending"
CONFIRMED == "confirmed"
COMPLETED == "completed"
REJECTED == "rejected"
CANCELLED == "cancelled"

Status == {PENDING, CONFIRMED, COMPLETED, REJECTED, CANCELLED}

(* status = CharField(default=Status.PENDING) *)
StatusDefault == PENDING

(* Two rows are "active" for the invariant of the data model *)
IsActive(b) == b.status \notin {CANCELLED, REJECTED}

----------------------------------------------------------------------------
(* BookingForm *)

NON_FIELD_ERRORS == "__all__"

(* The candidates a booking request can carry *)
Candidates ==
    [date : Dates, start_time : Times, end_time : Times, add_ons : SUBSET AddOns]

(* Variants of the overlap queryset, each a slip the code could have made *)

(* closed ranges: __lte / __gte instead of __lt / __gt *)
OverlappingClosed(store, venue, c) ==
    {b \in store :
        /\ b.venue = venue
        /\ b.date = c.date
        /\ b.status # CANCELLED
        /\ b.status # REJECTED
        /\ b.start_time <= c.end_time
        /\ b.end_time >= c.start_time}

(* only the candidate's start is looked up in the existing ranges *)
OverlappingStartOnly(store, venue, c) ==
    {b \in store :
        /\ b.venue = venue
        /\ b.date = c.date
        /\ b.status # CANCELLED
        /\ b.status # REJECTED
        /\ b.start_time <= c.start_time
        /\ b.end_time > c.start_time}

(* the second exclude() is missing *)
OverlappingRejectedToo(store, venue, c) ==
    {b \in store :
        /\ b.venue = venue
        /\ b.date = c.date
        /\ b.status # CANCELLED
        /\ b.start_time < c.end_time
        /\ b.end_time > c.start_time}

(* The queryset of BookingForm.clean:
   Booking.objects.filter(venue, date).exclude(CANCELLED).exclude(REJECTED)
          .filter(start_time__lt=end, end_time__gt=start) *)
Overlapping(store, venue, c) ==
    {b \in store :
        /\ b.venue = venue
        /\ b.date = c.date
        /\ b.status # CANCELLED
        /\ b.status # REJECTED
        /\ b.start_time < c.end_time
        /\ b.end_time > c.start_time}

(* A variant of the form: the queryset of add_ons is AddOn.objects.all() *)
FieldErrorsAnyAddOn(venue, c) == {}

(* The errors of the fields themselves: add_ons is a ModelMultipleChoiceField
   over venue.add_ons.all(), a choice outside the queryset is invalid *)
FieldErrors(venue, c) ==
    IF c.add_ons \subseteq VenueAddOns(venue) THEN {} ELSE {"add_ons"}

(* Variants of BookingForm.clean *)

(* start > end instead of start >= end *)
CleanErrorsStrictOrder(store, venue, c, now) ==
    (IF c.start_time > c.end_time THEN {"end_time"} ELSE {})
    \cup (IF c.date < now THEN {"date"} ELSE {})
    \cup (IF {b \in store : b.venue = venue /\ b.date = c.date /\ IsActive(b)
                 /\ b.start_time < c.end_time /\ b.end_time > c.start_time} # {}
          THEN {NON_FIELD_ERRORS} ELSE {})

(* date <= today instead of date < today *)
CleanErrorsTodayIsPast(store, venue, c, now) ==
    (IF c.start_time >= c.end_time THEN {"end_time"} ELSE {})
    \cup (IF c.date <= now THEN {"date"} ELSE {})
    \cup (IF {b \in store : b.venue = venue /\ b.date = c.date /\ IsActive(b)
                 /\ b.start_time < c.end_time /\ b.end_time > c.start_time} # {}
          THEN {NON_FIELD_ERRORS} ELSE {})

(* the overlap is reported with add_error("start_time", ...) *)
CleanErrorsOverlapOnField(store, venue, c, now) ==
    (IF c.start_time >= c.end_time THEN {"end_time"} ELSE {})
    \cup (IF c.date < now THEN {"date"} ELSE {})
    \cup (IF {b \in store : b.venue = venue /\ b.date = c.date /\ IsActive(b)
                 /\ b.start_time < c.end_time /\ b.end_time > c.start_time} # {}
          THEN {"start_time"} ELSE {})

(* BookingForm.clean: the names the errors are attached to *)
CleanErrors(store, venue, c, now) ==
    (IF c.start_time >= c.end_time THEN {"end_time"} ELSE {})
    \cup (IF c.date < now THEN {"date"} ELSE {})
    \cup (IF Overlapping(store, venue, c) # {} THEN {NON_FIELD_ERRORS} ELSE {})

(* form.non_field_errors(): clean raises one ValidationError when
   overlapping.exists(), whatever the number of rows found *)
NonFieldErrors(store, venue, c) ==
    IF Overlapping(store, venue, c) # {} THEN <<"overlap">> ELSE <<>>

(* form.errors after form.is_valid() *)
FormErrors(store, venue, c, now) ==
    FieldErrors(venue, c) \cup CleanErrors(store, venue, c, now)

(* A variant of the insert: the booking is stored as confirmed *)
NewBookingConfirmed(pk, user, venue, c) ==
    [pk |-> pk, user |-> user, venue |-> venue, date |-> c.date,
     start_time |-> c.start_time, end_time |-> c.end_time,
     status |-> CONFIRMED, add_ons |-> c.add_ons]

(* form.save(commit=False); booking.user = ...; booking.venue = ...;
   booking.save(); form.save_m2m() *)
NewBooking(pk, user, venue, c) ==
    [pk |-> pk, user |-> user, venue |-> venue, date |-> c.date,
     start_time |-> c.start_time, end_time |-> c.end_time,
     status |-> StatusDefault, add_ons |-> c.add_ons]

NextPk(store) == Cardinality(store) + 1

----------------------------------------------------------------------------
(* BookingCreateView.post *)

(* A variant of post: the return of the invalid branch is missing, and the
   booking is saved after the errors are rendered *)
BookingCreateNoReturn(user, slug, c) ==
    /\ handled < MaxRequests
    /\ handled' = handled + 1
    /\ IF slug \notin VenueSlugs
       THEN /\ response' = [op |-> "book", code |-> "404", errors |-> {},
                            non_field |-> <<>>]
            /\ UNCHANGED bookings
       ELSE LET errors == FormErrors(bookings, slug, c, today) IN
            /\ bookings' = bookings \cup {NewBooking(NextPk(bookings), user, slug, c)}
            /\ response' = [op |-> "book",
                            code |-> IF errors # {} THEN "invalid" ELSE "redirect",
                            errors |-> errors,
                            non_field |-> NonFieldErrors(bookings, slug, c)]
    /\ UNCHANGED <<today, reviews, wishlist, venues, request, procs, priced>>

BookingCreate(user, slug, c) ==
    /\ handled < MaxRequests
    /\ handled' = handled + 1
    /\ IF slug \notin VenueSlugs
       THEN /\ response' = [op |-> "book", code |-> "404", errors |-> {},
                            non_field |-> <<>>]
            /\ UNCHANGED bookings
       ELSE LET errors == FormErrors(bookings, slug, c, today) IN
            IF errors # {}
            THEN /\ response' = [op |-> "book", code |-> "invalid", errors |-> errors,
                                 non_field |-> NonFieldErrors(bookings, slug, c)]
                 /\ UNCHANGED bookings
            ELSE /\ bookings' = bookings \cup {NewBooking(NextPk(bookings), user, slug, c)}
                 /\ response' = [op |-> "book", code |-> "redirect", errors |-> {},
                                 non_field |-> <<>>]
    /\ UNCHANGED <<today, reviews, wishlist, venues, request, procs, priced>>

----------------------------------------------------------------------------
(* ReviewForm and ReviewCreateView.post *)

MinRating == 1
MaxRating == 5

(* The rating as posted, a text: "1", "5", "0", "6", "10", "-1", "x", "" *)
RatingInputs ==
    {<<"1">>, <<"5">>, <<"0">>, <<"6">>, <<"1", "0">>, <<"-", "1">>, <<"x">>, <<>>}

Comments == {"", "good", "bad"}

IsDigit(ch) == ch \in {"0", "1", "2", "3", "4", "5", "6", "7", "8", "9"}

DigitValue(ch) ==
    CASE ch = "0" -> 0 [] ch = "1" -> 1 [] ch = "2" -> 2 [] ch = "3" -> 3
      [] ch = "4" -> 4 [] ch = "5" -> 5 [] ch = "6" -> 6 [] ch = "7" -> 7
      [] ch = "8" -> 8 [] ch = "9" -> 9

RECURSIVE ParseDigits(_)
(* int() of a text of digits *)
ParseDigits(text) ==
    IF text = <<>> THEN 0
    ELSE 10 * ParseDigits(SubSeq(text, 1, Len(text) - 1)) + DigitValue(text[Len(text)])

AllDigits(text) == text # <<>> /\ \A i \in 1..Len(text) : IsDigit(text[i])

(* The form field of rating = PositiveSmallIntegerField(): a required
   IntegerField with min_value=0.  An empty text is "required", a text that
   is not a number is "invalid", a negative number is below min_value; then
   the value is not in cleaned_data and clean_rating is not called. *)
RatingField(text) ==
    IF AllDigits(text) THEN [error |-> FALSE, value |-> ParseDigits(text)]
    ELSE [error |-> TRUE, value |-> 0]

(* A variant of ReviewForm: clean_rating tests range(0, 6) *)
ReviewFormErrorsFromZero(posted, comment) ==
    (IF RatingField(posted).error
        \/ RatingField(posted).value \notin (MinRating - 1)..MaxRating
     THEN {"rating"} ELSE {})
    \cup (IF comment = "" THEN {"comment"} ELSE {})

(* ReviewForm.clean_rating: rating not in range(1, 6); comment is a required
   field *)
ReviewFormErrors(posted, comment) ==
    (IF RatingField(posted).error
        \/ RatingField(posted).value \notin MinRating..MaxRating
     THEN {"rating"} ELSE {})
    \cup (IF comment = "" THEN {"comment"} ELSE {})

(* A variant of the upsert: Review.objects.create(user, venue, rating, comment) *)
UpdateOrCreateAlwaysCreates(store, user, venue, rating, comment) ==
    store \cup {[user |-> user, venue |-> venue, rating |-> rating, comment |-> comment]}

(* Review.objects.update_or_create(user, venue, defaults) *)
UpdateOrCreate(store, user, venue, rating, comment) ==
    LET found == {r \in store : r.user = user /\ r.venue = venue} IN
    IF found = {}
    THEN store \cup {[user |-> user, venue |-> venue, rating |-> rating, comment |-> comment]}
    ELSE (store \ found)
         \cup {[r EXCEPT !.rating = rating, !.comment = comment] : r \in found}

(* created is the second component of the result of update_or_create *)
ReviewCreate(user, slug, posted, comment) ==
    /\ handled < MaxRequests
    /\ handled' = handled + 1
    /\ IF slug \notin VenueSlugs
       THEN /\ response' = [op |-> "review", code |-> "404", errors |-> {},
                            created |-> FALSE]
            /\ UNCHANGED reviews
       ELSE LET errors == ReviewFormErrors(posted, comment) IN
            IF errors # {}
            THEN /\ response' = [op |-> "review", code |-> "invalid", errors |-> errors,
                                 created |-> FALSE]
                 /\ UNCHANGED reviews
            ELSE /\ reviews' = UpdateOrCreate(reviews, user, slug,
                                              RatingField(posted).value, comment)
                 /\ response' = [op |-> "review", code |-> "redirect", errors |-> {},
                                 created |-> (\A r \in reviews :
                                                 ~(r.user = user /\ r.venue = slug))]
    /\ UNCHANGED <<today, bookings, wishlist, venues, request, procs, priced>>

----------------------------------------------------------------------------
(* WishlistToggleView.post *)

(* The primary key the database gives a new row: one not in use *)
NewPk(store) ==
    IF store = {} THEN 1
    ELSE 1 + (CHOOSE k \in {r.pk : r \in store} : \A r \in store : r.pk <= k)

(* A variant of the toggle: an item found is left in place *)
ToggledNeverDeletes(store, user, venue) ==
    LET found == {r \in store : r.user = user /\ r.venue = venue} IN
    IF found = {}
    THEN store \cup {[pk |-> NewPk(store), user |-> user, venue |-> venue]}
    ELSE store

(* wishlist_item, created = WishlistItem.objects.get_or_create(user, venue)
   if not created: wishlist_item.delete() *)
Toggled(store, user, venue) ==
    LET found == {r \in store : r.user = user /\ r.venue = venue} IN
    IF found = {}
    THEN store \cup {[pk |-> NewPk(store), user |-> user, venue |-> venue]}
    ELSE store \ found

(* created selects the message of the response *)
WishlistToggle(user, slug) ==
    /\ handled < MaxRequests
    /\ handled' = handled + 1
    /\ IF slug \notin VenueSlugs
       THEN /\ response' = [op |-> "wishlist", code |-> "404", errors |-> {},
                            created |-> FALSE]
            /\ UNCHANGED wishlist
       ELSE /\ wishlist' = Toggled(wishlist, user, slug)
            /\ response' = [op |-> "wishlist", code |-> "redirect", errors |-> {},
                            created |-> (\A r \in wishlist :
                                            ~(r.user = user /\ r.venue = slug))]
    /\ UNCHANGED <<today, bookings, reviews, venues, request, procs, priced>>

(* The calendar day changes between requests *)
Midnight ==
    /\ today < MaxDate
    /\ today' = today + 1
    /\ UNCHANGED <<bookings, reviews, wishlist, venues, request, response, handled, procs, priced>>

----------------------------------------------------------------------------
(* The store before the first request: at most one booking, made earlier and
   since then moved to any status by the approval process (BookingAdmin) *)

SeedBookings ==
    {[pk |-> 1, user |-> "u1", venue |-> "v1", date |-> d, start_time |-> s,
      end_time |-> e, status |-> st, add_ons |-> {}] :
        d \in Dates, s \in Times, e \in Times, st \in Status}

SeedStores == {{}} \cup {{b} : b \in {x \in SeedBookings : x.start_time < x.end_time}}

(* The seeds of the request sequences: the whole last day of venue v1 *)
DayStores ==
    {S \in SeedStores :
        \A b \in S : b.date = MaxDate /\ b.start_time = 0 /\ b.end_time = MaxTime}

Procs == {"p1", "p2"}

ProcUser(p) == IF p = "p1" THEN "u1" ELSE "u2"

Idle == [pc |-> "idle"]

NoRequest == [op |-> "none"]
NoResponse == [op |-> "none", code |-> "none", errors |-> {}]

(* No booking has been priced yet *)
NotPriced == [seconds |-> 0 - 1, price_per_hour |-> 0, add_ons |-> {},
              duration_hours |-> 0, base_price |-> 0, total_price |-> 0,
              called |-> FALSE]

InitRest ==
    /\ reviews = {}
    /\ wishlist = {}
    /\ venues = {}
    /\ response = NoResponse
    /\ handled = 0
    /\ procs = [p \in Procs |-> Idle]
    /\ priced = NotPriced

----------------------------------------------------------------------------
(* Requests handled one at a time *)

Init ==
    /\ today = 0
    /\ bookings \in DayStores
    /\ request = NoRequest
    /\ InitRest

Next ==
    \/ \E u \in Users, s \in RequestSlugs, c \in Candidates : BookingCreate(u, s, c)
    \/ \E u \in Users, s \in RequestSlugs, r \in RatingInputs, t \in Comments :
          ReviewCreate(u, s, r, t)
    \/ \E u \in Users, s \in RequestSlugs : WishlistToggle(u, s)
    \/ Midnight

Spec == Init /\ [][Next]_vars

----------------------------------------------------------------------------
(* Review submissions, against a store that may hold reviews made earlier *)

SeedReviews ==
    {[user |-> "u1", venue |-> "v1", rating |-> 2, comment |-> "bad"],
     [user |-> "u2", venue |-> "v1", rating |-> 4, comment |-> "bad"]}

InitReview ==
    /\ today = 0
    /\ bookings = {}
    /\ request = NoRequest
    /\ reviews \in SUBSET SeedReviews
    /\ wishlist = {}
    /\ venues = {}
    /\ response = NoResponse
    /\ handled = 0
    /\ procs = [p \in Procs |-> Idle]
    /\ priced = NotPriced

NextReview ==
    \E u \in Users, s \in RequestSlugs, r \in RatingInputs, t \in Comments :
        ReviewCreate(u, s, r, t)

SpecReview == InitReview /\ [][NextReview]_vars

----------------------------------------------------------------------------
(* Wishlist toggles, against a wishlist that may hold items saved earlier *)

SeedWishlist ==
    {[pk |-> 1, user |-> "u2", venue |-> "v2"],
     [pk |-> 2, user |-> "u1", venue |-> "v2"],
     [pk |-> 3, user |-> "u2", venue |-> "v1"]}

InitWishlist ==
    /\ today = 0
    /\ bookings = {}
    /\ request = NoRequest
    /\ reviews = {}
    /\ wishlist \in SUBSET SeedWishlist
    /\ venues = {}
    /\ response = NoResponse
    /\ handled = 0
    /\ procs = [p \in Procs |-> Idle]
    /\ priced = NotPriced

NextWishlist == \E u \in Users, s \in RequestSlugs : WishlistToggle(u, s)

SpecWishlist == InitWishlist /\ [][NextWishlist]_vars

----------------------------------------------------------------------------
(* One booking submission, drawn at the start, against any seeded store *)

BookingRequests == [op : {"book"}, user : Users, slug : RequestSlugs, form : Candidates]

InitSubmit ==
    /\ today \in Dates
    /\ bookings \in SeedStores
    /\ request \in BookingRequests
    /\ InitRest

Submit == BookingCreate(request.user, request.slug, request.form)

SpecSubmit == InitSubmit /\ [][Submit]_vars

(* The rows that existed before the request handled last *)
Before ==
    IF response.op = "book" /\ response.code = "redirect"
    THEN {b \in bookings : b.pk < Cardinality(bookings)}
    ELSE bookings

(* The row the request handled last has inserted *)
Inserted == bookings \ Before

----------------------------------------------------------------------------
(* Two booking submissions handled by two workers at once.  Nothing in
   BookingCreateView.post or BookingForm.clean opens a transaction or takes a
   lock, so the database may run the statements of one request between the
   SELECT of form.is_valid() and the INSERT of booking.save() of the other. *)

ConcCandidates == {c \in Candidates : c.add_ons = {}}

(* get_object_or_404; form = BookingForm(venue, request.POST); form.is_valid() *)
Validate(p, slug, c) ==
    /\ procs[p].pc = "idle"
    /\ procs' = [procs EXCEPT ![p] =
          IF slug \notin VenueSlugs
          THEN [pc |-> "done", code |-> "404", user |-> ProcUser(p), slug |-> slug,
                form |-> c, errors |-> {}]
          ELSE [pc |-> "validated", code |-> "none", user |-> ProcUser(p), slug |-> slug,
                form |-> c, errors |-> FormErrors(bookings, slug, c, today)]]
    /\ UNCHANGED <<today, bookings, reviews, wishlist, venues, request, response, handled, priced>>

(* the rest of post: render the errors, or save the booking and redirect *)
Finish(p) ==
    /\ procs[p].pc = "validated"
    /\ IF procs[p].errors # {}
       THEN /\ procs' = [procs EXCEPT ![p].pc = "done", ![p].code = "invalid"]
            /\ UNCHANGED bookings
       ELSE /\ bookings' = bookings \cup
                  {NewBooking(NextPk(bookings), procs[p].user, procs[p].slug, procs[p].form)}
            /\ procs' = [procs EXCEPT ![p].pc = "done", ![p].code = "redirect"]
    /\ UNCHANGED <<today, reviews, wishlist, venues, request, response, handled, priced>>

InitConc ==
    /\ today = 0
    /\ bookings = {}
    /\ request = NoRequest
    /\ InitRest

NextConc ==
    \/ \E p \in Procs, s \in RequestSlugs, c \in ConcCandidates : Validate(p, s, c)
    \/ \E p \in Procs : Finish(p)

SpecConc == InitConc /\ [][NextConc]_vars

----------------------------------------------------------------------------
(* Booking.total_price.  Times of day are seconds since midnight, money is
   in cents (DecimalField(decimal_places=2)), duration_hours is in hundredths
   of an hour. *)

MaxSecond == 7200

(* start_time of the booking priced *)
StartSeconds == {0, 90}

(* venue.price_per_hour, in cents: 450000.00 from the seeded catalogue, 0.01,
   333.33 *)
PriceSamples == {45000000, 1, 33333}

(* add_on.price of the two add-ons of the booking's venue, in cents: Match
   Official 150000.00, High-Speed Camera 200000.00 *)
AddOnPrice(a) == IF a = "a1" THEN 15000000 ELSE 20000000

Abs(n) == IF n < 0 THEN 0 - n ELSE n

Sign(n) == IF n < 0 THEN 0 - 1 ELSE 1

(* n/d rounded to an integer by ROUND_HALF_EVEN, the rounding of the default
   decimal context that quantize() uses; d > 0 *)
RoundHalfEven(n, d) ==
    LET q == Abs(n) \div d
        r == Abs(n) % d
    IN  Sign(n) * (IF 2 * r > d \/ (2 * r = d /\ q % 2 = 1) THEN q + 1 ELSE q)

(* n/d rounded by ROUND_HALF_UP: ties away from zero *)
RoundHalfAway(n, d) ==
    LET q == Abs(n) \div d
        r == Abs(n) % d
    IN  Sign(n) * (IF 2 * r >= d THEN q + 1 ELSE q)

(* A variant: quantize(Decimal("0.01"), rounding=ROUND_HALF_UP) *)
DurationHoursHalfUp(start, end) == RoundHalfAway(end - start, 36)

(* duration = (end - start).total_seconds() / 3600
   duration_hours = Decimal(str(duration)).quantize(Decimal("0.01"))
   The quotient is the double nearest to seconds/3600 and str() prints the
   shortest decimal that reads back as that double: a tie x.xx5 prints as
   itself, and any other quotient is 1/3600 or more away from a tie, so the
   result is seconds/3600 rounded half-even to hundredths, seconds*100/3600 =
   seconds/36. *)
DurationHours(start, end) == RoundHalfEven(end - start, 36)

(* x * y / 10^k rounded half-even to an integer, x >= 0, with unit = 10^k.
   Decimal multiplies exactly (28 digits); the product is split here as
   (hi * unit + lo) * y so that no intermediate value leaves TLC's integers. *)
MulQuantize(x, y, unit) ==
    LET hi == x \div unit
        lo == x % unit
        m == lo * Abs(y)
        q == hi * Abs(y) + (m \div unit)
        r == m % unit
    IN  Sign(y) * (IF 2 * r > unit \/ (2 * r = unit /\ q % 2 = 1) THEN q + 1 ELSE q)

(* A variant: the base price quantized to whole currency units *)
BasePriceWholeUnits(price_per_hour, duration_hours) ==
    MulQuantize(price_per_hour, duration_hours, 10000) * 100

(* base_price = (venue.price_per_hour * duration_hours).quantize(Decimal("0.01"))
   cents * hundredths is in units of 1/10000 *)
BasePrice(price_per_hour, duration_hours) ==
    MulQuantize(price_per_hour, duration_hours, 100)

RECURSIVE SumPrices(_)
(* sum((add_on.price for add_on in self.add_ons.all()), Decimal("0.00")) *)
SumPrices(selected) ==
    IF selected = {} THEN 0
    ELSE LET a == CHOOSE x \in selected : TRUE
         IN  AddOnPrice(a) + SumPrices(selected \ {a})

(* Booking.total_price() of a booking of a venue with the given hourly price *)
TotalPrice(price_per_hour, start, end, selected) ==
    BasePrice(price_per_hour, DurationHours(start, end)) + SumPrices(selected)

(* A call of total_price() *)
PriceBooking(price_per_hour, start, end, selected) ==
    /\ priced' = [seconds |-> end - start,
                  price_per_hour |-> price_per_hour,
                  add_ons |-> selected,
                  duration_hours |-> DurationHours(start, end),
                  base_price |-> BasePrice(price_per_hour, DurationHours(start, end)),
                  total_price |-> TotalPrice(price_per_hour, start, end, selected),
                  called |-> TRUE]
    /\ UNCHANGED <<today, bookings, reviews, wishlist, venues, request, response, handled, procs>>

InitPrice ==
    /\ today = 0
    /\ bookings = {}
    /\ request = NoRequest
    /\ InitRest

NextPrice ==
    /\ ~priced.called
    /\ \E p \in PriceSamples, s \in StartSeconds, e \in 0..MaxSecond, sel \in SUBSET AddOns :
        PriceBooking(p, s, e, sel)

SpecPrice == InitPrice /\ [][NextPrice]_vars

----------------------------------------------------------------------------
(* Venue.save and the slug generator.  Names and slugs are sequences of
   characters. *)

MaxVenues == 3

(* name of the venue saved: "A  u!", and "!", which slugify() turns into the
   empty string *)
Names == {<<"A", " ", " ", "u", "!">>, <<"!">>}

Blank == <<>>

(* str.lower() *)
Lower(ch) == IF ch = "A" THEN "a" ELSE IF ch = "U" THEN "u" ELSE ch

(* \w, \s *)
IsWord(ch) == ch \in {"a", "u", "A", "U", "2", "_"}
IsSpace(ch) == ch = " "
IsSeparator(ch) == ch = "-" \/ IsSpace(ch)

(* re.sub(r"[^\w\s-]", "", value.lower()) *)
KeepSlugChars(value) ==
    LET lowered == [i \in 1..Len(value) |-> Lower(value[i])]
        Kept(ch) == IsWord(ch) \/ IsSeparator(ch)
    IN  SelectSeq(lowered, Kept)

RECURSIVE DropSeparators(_)
DropSeparators(value) ==
    IF value # <<>> /\ IsSeparator(Head(value)) THEN DropSeparators(Tail(value)) ELSE value

RECURSIVE CollapseSeparators(_)
(* re.sub(r"[-\s]+", "-", value) *)
CollapseSeparators(value) ==
    IF value = <<>> THEN <<>>
    ELSE IF IsSeparator(Head(value))
         THEN <<"-">> \o CollapseSeparators(DropSeparators(value))
         ELSE <<Head(value)>> \o CollapseSeparators(Tail(value))

RECURSIVE StripEnds(_)
(* .strip("-_") *)
StripEnds(value) ==
    IF value = <<>> THEN <<>>
    ELSE IF Head(value) \in {"-", "_"} THEN StripEnds(Tail(value))
    ELSE IF value[Len(value)] \in {"-", "_"} THEN StripEnds(SubSeq(value, 1, Len(value) - 1))
    ELSE value

(* django.utils.text.slugify(name) *)
Slugify(name) == StripEnds(CollapseSeparators(KeepSlugChars(name)))

RECURSIVE Digits(_)
(* str(counter) *)
Digits(n) ==
    LET d == n % 10
        ch == CASE d = 0 -> "0" [] d = 1 -> "1" [] d = 2 -> "2" [] d = 3 -> "3"
                [] d = 4 -> "4" [] d = 5 -> "5" [] d = 6 -> "6" [] d = 7 -> "7"
                [] d = 8 -> "8" [] d = 9 -> "9"
    IN  IF n < 10 THEN <<ch>> ELSE Digits(n \div 10) \o <<ch>>

(* f"{base_slug}-{counter}" *)
Suffixed(base, counter) == base \o <<"-">> \o Digits(counter)

(* Venue.objects.filter(slug=slug).exclude(pk=self.pk).exists() *)
SlugTaken(others, slug) == \E v \in others : v.slug = slug

(* A variant of the generator: the suffix -2 is taken without looking it up *)
GenerateSlugOnce(name, others) ==
    IF SlugTaken(others, Slugify(name)) THEN Suffixed(Slugify(name), 2) ELSE Slugify(name)

RECURSIVE SlugLoop(_, _, _, _)
(* while ...exists(): counter += 1; slug = f"{base_slug}-{counter}" *)
SlugLoop(base, counter, slug, others) ==
    IF SlugTaken(others, slug)
    THEN SlugLoop(base, counter + 1, Suffixed(base, counter + 1), others)
    ELSE slug

(* base_slug = slugify(self.name); slug = base_slug; counter = 1; the loop *)
GenerateSlug(name, others) == SlugLoop(Slugify(name), 1, Slugify(name), others)

(* The instance saved is the stored row as it is: same name, same slug *)
IsResave(pk, name, slug) ==
    \E v \in venues : v.pk = pk /\ v.name = name /\ v.slug = slug

(* A variant of Venue.save: .exclude(pk=self.pk) is missing from the lookup
   of the generator, so the row of the venue itself counts as a collision *)
VenueSaveCountsOwn(pk, name, slug) ==
    LET others == {v \in venues : v.pk # pk}
        final == IF slug = Blank THEN GenerateSlug(name, venues) ELSE slug
    IN  IF SlugTaken(others, final)
        THEN /\ response' = [op |-> "venue", code |-> "integrity_error", errors |-> {},
                             pk |-> pk, blank |-> (slug = Blank),
                             resave |-> IsResave(pk, name, slug)]
             /\ UNCHANGED venues
        ELSE /\ venues' = others \cup {[pk |-> pk, name |-> name, slug |-> final]}
             /\ response' = [op |-> "venue", code |-> "saved", errors |-> {},
                             pk |-> pk, blank |-> (slug = Blank),
                             resave |-> IsResave(pk, name, slug)]

(* Venue.save() of the venue pk with the name and slug of the instance; the
   primary key of a venue not stored yet is set by the insert.  The slug
   column is unique: the insert or update of a taken slug fails.  "not
   self.slug" is true of the empty slug, typed or stored. *)
VenueSave(pk, name, slug) ==
    LET others == {v \in venues : v.pk # pk}
        final == IF slug = Blank THEN GenerateSlug(name, others) ELSE slug
    IN  IF SlugTaken(others, final)
        THEN /\ response' = [op |-> "venue", code |-> "integrity_error", errors |-> {},
                             pk |-> pk, blank |-> (slug = Blank),
                             resave |-> IsResave(pk, name, slug)]
             /\ UNCHANGED venues
        ELSE /\ venues' = others \cup {[pk |-> pk, name |-> name, slug |-> final]}
             /\ response' = [op |-> "venue", code |-> "saved", errors |-> {},
                             pk |-> pk, blank |-> (slug = Blank),
                             resave |-> IsResave(pk, name, slug)]

(* The venue is new, and saved with a blank or a typed slug *)
VenueCreate(name, slug) ==
    /\ Cardinality(venues) < MaxVenues
    /\ VenueSave(Cardinality(venues) + 1, name, slug)
    /\ UNCHANGED <<today, bookings, reviews, wishlist, request, handled, procs, priced>>

(* A stored venue is saved again: with its slug, or with the slug blanked *)
VenueUpdate(pk, name, blanked) ==
    /\ \E v \in venues :
          /\ v.pk = pk
          /\ VenueSave(pk, name, IF blanked THEN Blank ELSE v.slug)
    /\ UNCHANGED <<today, bookings, reviews, wishlist, request, handled, procs, priced>>

(* slugs typed into the form: none, "a-u-2" *)
SlugInputs == {Blank, <<"a", "-", "u", "-", "2">>}

InitSlug ==
    /\ today = 0
    /\ bookings = {}
    /\ request = NoRequest
    /\ InitRest

NextSlug ==
    \/ \E n \in Names, s \in SlugInputs : VenueCreate(n, s)
    \/ \E pk \in 1..MaxVenues, n \in Names, b \in BOOLEAN : VenueUpdate(pk, n, b)

SpecSlug == InitSlug /\ [][NextSlug]_vars

----------------------------------------------------------------------------
(* VenueFilterForm and VenueListBaseView.get_queryset.  The catalogue is
   held in venues, each row with its city, category and hourly price (in
   cents); the GET parameters are texts. *)

Categories == {"k1", "k2"}

(* "A u" in city "a", free; "u2" in city "A"; "a" in city "u" *)
CatalogueVenues ==
    {[pk |-> 1, name |-> <<"A", " ", "u">>, slug |-> <<"a", "-", "u">>,
      city |-> <<"a">>, category |-> "k1", price_per_hour |-> 0],
     [pk |-> 2, name |-> <<"u", "2">>, slug |-> <<"u", "2">>,
      city |-> <<"A">>, category |-> "k1", price_per_hour |-> 10000],
     [pk |-> 3, name |-> <<"a">>, slug |-> <<"a">>,
      city |-> <<"u">>, category |-> "k2", price_per_hour |-> 45000000]}

(* request.GET: q, city, category and max_price as typed; empty_get is the
   request without any parameter *)
FilterRequests ==
    [op : {"list"}, empty_get : {FALSE},
     q : {<<>>, <<"a">>, <<"U">>},
     city : {<<>>, <<"a">>, <<"A">>, <<"u">>, <<"x">>},
     category : {"", "k1", "k2", "k0"},
     max_price : {<<>>, <<"0">>, <<"9", "9">>, <<"1", "0", "0">>, <<"-", "1">>, <<"x">>}]
    \cup [op : {"list"}, empty_get : {TRUE}, q : {<<>>}, city : {<<>>},
          category : {""}, max_price : {<<>>}]

(* str.lower() of a text *)
LowerText(text) == [i \in 1..Len(text) |-> Lower(text[i])]

(* name__icontains=q *)
IContains(text, sub) ==
    \E i \in 0..(Len(text) - Len(sub)) :
        SubSeq(LowerText(text), i + 1, i + Len(sub)) = LowerText(sub)

(* city__iexact=city *)
IExact(text, other) == LowerText(text) = LowerText(other)

(* VenueFilterForm.__init__: the choices of city are "" and the distinct
   non-empty cities of the stored venues *)
CityChoices(store) == {<<>>} \cup {v.city : v \in {x \in store : x.city # <<>>}}

(* the choices of category are "" and the slugs of the categories *)
CategoryChoices == {""} \cup Categories

(* forms.DecimalField(required=False, min_value=0): an empty text is no
   value; a text of digits is its value, here in cents *)
MaxPriceField(text) ==
    IF text = <<>> THEN [error |-> FALSE, none |-> TRUE, value |-> 0]
    ELSE IF AllDigits(text) THEN [error |-> FALSE, none |-> FALSE,
                                  value |-> 100 * ParseDigits(text)]
    ELSE [error |-> TRUE, none |-> TRUE, value |-> 0]

(* form.errors of the filter form *)
FilterFormErrors(store, params) ==
    (IF params.city \notin CityChoices(store) THEN {"city"} ELSE {})
    \cup (IF params.category \notin CategoryChoices THEN {"category"} ELSE {})
    \cup (IF MaxPriceField(params.max_price).error THEN {"max_price"} ELSE {})

(* VenueFilterForm(self.request.GET or None).is_valid(): a form without data
   is not bound, and an unbound form is not valid *)
FilterFormValid(store, params) ==
    ~params.empty_get /\ FilterFormErrors(store, params) = {}

(* if q: ...; if city: ...; if category: ...; if max_price: ... ; a
   Decimal is true when it is not zero *)
GetQueryset(store, params) ==
    IF ~FilterFormValid(store, params) THEN store
    ELSE LET max_price == MaxPriceField(params.max_price) IN
         {v \in store :
            /\ params.q # <<>> => IContains(v.name, params.q)
            /\ params.city # <<>> => IExact(v.city, params.city)
            /\ params.category # "" => v.category = params.category
            /\ (~max_price.none /\ max_price.value # 0)
                 => v.price_per_hour <= max_price.value}

(* The catalogue page is requested *)
VenueList ==
    /\ handled < MaxRequests
    /\ handled' = handled + 1
    /\ response' = [op |-> "list", code |-> "200",
                    errors |-> IF request.empty_get THEN {}
                               ELSE FilterFormErrors(venues, request),
                    valid |-> FilterFormValid(venues, request),
                    result |-> {v.pk : v \in GetQueryset(venues, request)}]
    /\ UNCHANGED <<today, bookings, reviews, wishlist, venues, request, procs, priced>>

InitFilter ==
    /\ today = 0
    /\ bookings = {}
    /\ request \in FilterRequests
    /\ reviews = {}
    /\ wishlist = {}
    /\ venues \in SUBSET CatalogueVenues
    /\ response = NoResponse
    /\ handled = 0
    /\ procs = [p \in Procs |-> Idle]
    /\ priced = NotPriced

SpecFilter == InitFilter /\ [][VenueList]_vars

----------------------------------------------------------------------------
(* Properties *)

(* [s1,e1) and [s2,e2) intersect: s1 < e2 and s2 < e1 *)
RangesIntersect(b1, b2) ==
    b1.start_time < b2.end_time /\ b2.start_time < b1.end_time

SameSlot(b1, b2) == b1.venue = b2.venue /\ b1.date = b2.date

(* The last request was a booking submission for a venue that exists *)
BookingAnswered == response.op = "book" /\ response.code # "404"

(* The submission under test as a row, to compare it with the stored rows *)
Candidate ==
    [venue |-> request.slug, date |-> request.form.date,
     start_time |-> request.form.start_time, end_time |-> request.form.end_time]

(* C1: after any sequence of booking submissions handled one at a time, no
   two bookings of the same venue and date whose status is outside
   {cancelled, rejected} have overlapping [start_time, end_time) ranges. *)
C1_NoActiveOverlap ==
    \A b1 \in bookings : \A b2 \in bookings :
        (b1 # b2 /\ SameSlot(b1, b2) /\ IsActive(b1) /\ IsActive(b2))
            => ~RangesIntersect(b1, b2)

(* two active bookings stored back to back in one venue on one day, the
   later one admitted by a submission *)
C1_Witness ==
    \E b1 \in bookings : \E b2 \in bookings :
        /\ b1.pk < b2.pk /\ SameSlot(b1, b2) /\ IsActive(b1) /\ IsActive(b2)
        /\ (b1.end_time = b2.start_time \/ b2.end_time = b1.start_time)

(* C3: a candidate with start < end and date not before today is rejected
   for overlap if and only if some existing active booking B of the same
   venue and date has B.start_time < candidate.end and B.end_time >
   candidate.start; so a back-to-back candidate is not rejected for overlap. *)
C3_OverlapIffHalfOpen ==
    (/\ BookingAnswered
     /\ request.form.start_time < request.form.end_time
     /\ request.form.date >= today)
    => ((NON_FIELD_ERRORS \in response.errors)
        <=> (\E b \in Before :
                /\ SameSlot(b, Candidate) /\ IsActive(b)
                /\ b.start_time < request.form.end_time
                /\ b.end_time > request.form.start_time))

(* a candidate starting when an active booking ends is admitted *)
C3_Witness ==
    /\ BookingAnswered
    /\ response.code = "redirect"
    /\ \E b \in Before :
          /\ SameSlot(b, Candidate) /\ IsActive(b)
          /\ b.end_time = request.form.start_time

(* C4: an existing booking of the candidate's venue and date whose range
   intersects the candidate's blocks it when its status is pending, confirmed
   or completed; cancelled and rejected bookings never cause a rejection. *)
C4_BlockingStatuses ==
    BookingAnswered
    => /\ \A b \in Before :
            (/\ SameSlot(b, Candidate) /\ RangesIntersect(b, Candidate)
             /\ b.status \in {PENDING, CONFIRMED, COMPLETED})
            => NON_FIELD_ERRORS \in response.errors
       /\ (\A b \in Before : b.status \in {CANCELLED, REJECTED})
            => NON_FIELD_ERRORS \notin response.errors

(* a candidate over the range of a cancelled booking is admitted *)
C4_Witness ==
    /\ BookingAnswered
    /\ response.code = "redirect"
    /\ \E b \in Before :
          /\ SameSlot(b, Candidate) /\ RangesIntersect(b, Candidate)
          /\ b.status = CANCELLED

(* C5: a candidate with start_time >= end_time is rejected with an error on
   the end_time field and inserts nothing; no stored booking has
   start_time >= end_time. *)
C5_EndAfterStart ==
    /\ (BookingAnswered /\ request.form.start_time >= request.form.end_time)
        => /\ response.code = "invalid"
           /\ "end_time" \in response.errors
           /\ Inserted = {}
    /\ \A b \in bookings : b.start_time < b.end_time

(* a zero-duration candidate rejected for its end time alone *)
C5_Witness ==
    /\ BookingAnswered
    /\ request.form.start_time = request.form.end_time
    /\ response.errors = {"end_time"}

(* C6: a candidate is rejected with an error on the date field if and only
   if its date is strictly earlier than today. *)
C6_PastDateOnly ==
    BookingAnswered
    => (("date" \in response.errors) <=> (request.form.date < today))

(* a candidate dated today, starting at the first slot of the day, admitted *)
C6_Witness ==
    /\ BookingAnswered
    /\ request.form.date = today
    /\ request.form.start_time = 0
    /\ today > 0
    /\ response.code = "redirect"

(* C7: a booking inserted by a submission has status pending, and no
   request (booking, review, wishlist toggle) changes or removes an
   existing booking's status. *)
C7_PendingAndStable ==
    [][/\ \A b \in bookings :
            \E n \in bookings' : n.pk = b.pk /\ n.status = b.status
       /\ \A n \in bookings' :
            (\A b \in bookings : b.pk # n.pk) => n.status = PENDING]_vars

(* a confirmed booking and a newly inserted pending one, after a review or
   a wishlist toggle has been handled *)
C7_Witness ==
    /\ \E b \in bookings : b.status = CONFIRMED
    /\ \E b \in bookings : b.status = PENDING /\ b.pk > 1
    /\ response.op \in {"review", "wishlist"}

(* C2: two submissions for the same venue and date whose ranges overlap
   each other, handled concurrently with their checks and inserts interleaved
   in any order, are never both persisted. *)
C2_NeverBothPersisted ==
    \A p \in Procs : \A q \in Procs :
        (/\ p # q
         /\ procs[p].pc = "done" /\ procs[q].pc = "done"
         /\ procs[p].slug = procs[q].slug
         /\ procs[p].form.date = procs[q].form.date
         /\ RangesIntersect(procs[p].form, procs[q].form))
        => ~(procs[p].code = "redirect" /\ procs[q].code = "redirect")

(* 100 * base - price * hours (in 1/10000), computed without leaving TLC's
   integers: price = 100 * units + cents *)
ProductOffset(base, price, hours) ==
    100 * (base - (price \div 100) * hours) - (price % 100) * hours

(* C8: total_price is base_price plus the prices of the selected add-ons,
   base_price is price_per_hour x duration_hours rounded to 2 decimal places,
   and for a whole number of hours h the total is exactly
   price_per_hour * h + the add-on prices. *)
C8_TotalPrice ==
    priced.called
    => /\ priced.total_price = priced.base_price + SumPrices(priced.add_ons)
       /\ 2 * Abs(ProductOffset(priced.base_price, priced.price_per_hour,
                                priced.duration_hours)) <= 100
       /\ (priced.seconds % 3600 = 0)
            => priced.total_price =
                  priced.price_per_hour * (priced.seconds \div 3600) + SumPrices(priced.add_ons)

(* 450000.00 an hour, 2 hours, the add-on of 150000.00: 1050000.00 *)
C8_Witness ==
    /\ priced.called
    /\ priced.price_per_hour = 45000000
    /\ priced.seconds = 7200
    /\ priced.add_ons = {"a1"}
    /\ priced.total_price = 105000000

(* C9 as claimed: duration_hours is seconds/3600 rounded to 2 decimal places
   with ties away from zero (18 seconds give 0.01, 90 seconds give 0.03). *)
C9_HalfAwayFromZero ==
    priced.called => priced.duration_hours = RoundHalfAway(priced.seconds, 36)

(* C9 as amended: duration_hours is seconds/3600 rounded to 2 decimal places
   with ties to the even hundredth: it is within half a hundredth of the
   quotient, and even when exactly half a hundredth away (18 seconds give
   0.00, 54 and 90 seconds give 0.02). *)
C9_HalfEven ==
    priced.called
    => LET off == Abs(36 * priced.duration_hours - priced.seconds) IN
       /\ off <= 18
       /\ (off = 18) => priced.duration_hours % 2 = 0

(* 90 seconds, 0.025 hours, priced as 0.02 hours *)
C9_Witness ==
    /\ priced.called
    /\ priced.seconds = 90
    /\ priced.duration_hours = 2

(* The venue saved last, and the venues stored beside it *)
SavedVenue == CHOOSE v \in venues : v.pk = response.pk

OtherSlugs == {v.slug : v \in {x \in venues : x.pk # response.pk}}

(* C10: saving a venue whose slug is blank assigns slugify(name) when no
   other venue uses it, otherwise base-k for the smallest k >= 2 such that
   no other venue uses base-k; the slug assigned differs from the slug of
   every other stored venue. *)
C10_SlugAssigned ==
    (response.op = "venue" /\ response.blank)
    => /\ response.code = "saved"
       /\ LET base == Slugify(SavedVenue.name)
              slug == SavedVenue.slug
          IN  /\ base \notin OtherSlugs => slug = base
              /\ base \in OtherSlugs
                   => \E k \in 2..(MaxVenues + 1) :
                         /\ slug = Suffixed(base, k)
                         /\ \A j \in 2..(k - 1) : Suffixed(base, j) \in OtherSlugs
              /\ slug \notin OtherSlugs

(* a venue named like the first got -2 taken by a third, and is given -3 *)
C10_Witness ==
    /\ response.op = "venue" /\ response.blank
    /\ SavedVenue.name = <<"A", " ", " ", "u", "!">>
    /\ SavedVenue.slug = <<"a", "-", "u", "-", "3">>
    /\ <<"a", "-", "u">> \in OtherSlugs
    /\ <<"a", "-", "u", "-", "2">> \in OtherSlugs

(* C11: saving a stored venue again as it is, name unchanged, leaves its
   row and so its slug unchanged and never fails, whatever other venues are
   stored and however often it is repeated; when the stored slug is empty
   and is generated again, the venue's own row is not a collision. *)
C11_ResaveKeepsSlug ==
    [][\A v \in venues :
          VenueUpdate(v.pk, v.name, FALSE)
          => /\ venues' = venues
             /\ response'.code = "saved"]_vars

(* the venue "!" with the empty slug, saved again beside a second venue "!"
   that was given "-2": its slug is generated again and is still empty *)
C11_Witness ==
    /\ response.op = "venue" /\ response.resave /\ response.blank
    /\ response.code = "saved"
    /\ SavedVenue.slug = Blank
    /\ Suffixed(Blank, 2) \in OtherSlugs

ReviewsOf(store, user, venue) == {r \in store : r.user = user /\ r.venue = venue}

(* C12: after any sequence of valid review submissions there is at most one
   review per (user, venue) pair; a submission for a pair leaves exactly one
   review of that pair, holding the submitted rating and comment, created
   when the pair had none and overwritten otherwise, and leaves the reviews of
   all other pairs as they were. *)
C12_OneReviewPerPair ==
    [][/\ \A u \in Users, s \in VenueSlugs :
            Cardinality(ReviewsOf(reviews', u, s)) <= 1
       /\ \A u \in Users, s \in VenueSlugs, n \in MinRating..MaxRating,
             t \in Comments \ {""} :
            ReviewCreate(u, s, Digits(n), t)
            => /\ ReviewsOf(reviews', u, s) =
                     {[user |-> u, venue |-> s, rating |-> n, comment |-> t]}
               /\ reviews' \ ReviewsOf(reviews', u, s) = reviews \ ReviewsOf(reviews, u, s)
               /\ response'.created = (ReviewsOf(reviews, u, s) = {})]_vars

(* the review u1 made of v1 earlier (2, "bad") overwritten with (5, "good"),
   beside the untouched review of u2 *)
C12_Witness ==
    /\ response.op = "review" /\ response.code = "redirect" /\ ~response.created
    /\ [user |-> "u1", venue |-> "v1", rating |-> 5, comment |-> "good"] \in reviews
    /\ [user |-> "u2", venue |-> "v1", rating |-> 4, comment |-> "bad"] \in reviews
    /\ Cardinality(reviews) = 2

(* The texts that denote an integer in 1..5 *)
RatingTexts == {Digits(n) : n \in MinRating..MaxRating}

(* C13: a review submission whose rating is not an integer in 1..5 is
   rejected with an error on rating and leaves the stored reviews unchanged;
   every stored review has a rating between 1 and 5 inclusive. *)
C13_RatingInRange ==
    [][/\ \A r \in reviews' : r.rating \in MinRating..MaxRating
       /\ \A u \in Users, s \in VenueSlugs, p \in RatingInputs \ RatingTexts,
             t \in Comments :
            ReviewCreate(u, s, p, t)
            => /\ reviews' = reviews
               /\ response'.code = "invalid"
               /\ "rating" \in response'.errors]_vars

(* a submission rejected for its rating alone while reviews are stored *)
C13_Witness ==
    /\ response.op = "review" /\ response.code = "invalid"
    /\ response.errors = {"rating"}
    /\ reviews # {}
    /\ handled = MaxRequests

(* The submission under test selects an add-on of another venue *)
ForeignAddOn == \E a \in request.form.add_ons : AddOnVenue(a) # request.slug

(* C14: the add-ons of every booking a submission has persisted are add-ons
   of the booking's venue; a submission selecting an add-on of a different
   venue is rejected with an error on add_ons and persists nothing. *)
C14_AddOnsOfVenue ==
    [][/\ \A b \in bookings' : \A a \in b.add_ons : AddOnVenue(a) = b.venue
       /\ (request.slug \in VenueSlugs /\ ForeignAddOn)
            => /\ response'.code = "invalid"
               /\ "add_ons" \in response'.errors
               /\ bookings' = bookings]_vars

(* a selection of the venue's own add-on together with one of another venue,
   otherwise admissible, rejected for add_ons alone *)
C14_Witness ==
    /\ BookingAnswered
    /\ request.slug = "v1" /\ request.form.add_ons = {"a1", "a2"}
    /\ response.errors = {"add_ons"}
    /\ handled = 1

(* Some active stored booking of the candidate's venue and date intersects it *)
OverlapsStored(store) ==
    \E b \in store : SameSlot(b, Candidate) /\ IsActive(b) /\ RangesIntersect(b, Candidate)

(* C16: a booking submission rejected for its time ordering, a past date, an
   overlap or an add-on of another venue leaves the stored bookings and their
   add-ons as they were; an admitted submission adds exactly one booking, of
   the submitting user and the venue of the request, with the candidate's
   date, times and add-ons, and leaves every stored booking as it was. *)
C16_SubmissionFrame ==
    [][request.slug \in VenueSlugs
       => /\ (\/ request.form.start_time >= request.form.end_time
              \/ request.form.date < today
              \/ OverlapsStored(bookings)
              \/ ForeignAddOn)
             => (response'.code = "invalid" /\ bookings' = bookings)
          /\ response'.code = "invalid" => bookings' = bookings
          /\ response'.code = "redirect"
             => /\ bookings \subseteq bookings'
                /\ Cardinality(bookings' \ bookings) = 1
                /\ \A n \in bookings' \ bookings :
                      /\ n.user = request.user
                      /\ n.venue = request.slug
                      /\ n.date = request.form.date
                      /\ n.start_time = request.form.start_time
                      /\ n.end_time = request.form.end_time
                      /\ n.add_ons = request.form.add_ons
                      /\ \A b \in bookings : b.pk # n.pk]_vars

(* a booking of u2 with an add-on admitted beside the stored booking of u1 *)
C16_Witness ==
    /\ BookingAnswered /\ response.code = "redirect"
    /\ request.user = "u2" /\ request.form.add_ons # {}
    /\ Cardinality(bookings) = 2
    /\ \E b \in bookings : b.user = "u2" /\ b.venue = request.slug /\ b.pk = 2
    /\ \E b \in bookings : b.user = "u1" /\ b.pk = 1

(* C17: a candidate with start < end and date not before today that
   overlaps an active booking is rejected with exactly one whole-request error
   and no error on date, start_time or end_time; no submission gets an overlap
   error on a field (a field error has its own cause), and a whole-request
   error is reported only for an overlap. *)
C17_OverlapIsNonFieldError ==
    BookingAnswered
    => /\ (/\ request.form.start_time < request.form.end_time
           /\ request.form.date >= today
           /\ OverlapsStored(Before))
          => /\ response.code = "invalid"
             /\ NON_FIELD_ERRORS \in response.errors
             /\ Len(response.non_field) = 1
             /\ response.errors \cap {"date", "start_time", "end_time"} = {}
       /\ "start_time" \notin response.errors
       /\ "end_time" \in response.errors
            => request.form.start_time >= request.form.end_time
       /\ "date" \in response.errors => request.form.date < today
       /\ (NON_FIELD_ERRORS \in response.errors \/ response.non_field # <<>>)
            => OverlapsStored(Before)
       /\ (request.form.start_time >= request.form.end_time \/ request.form.date < today)
            => response.errors \cap {"date", "end_time"} # {}

(* a well-ordered candidate dated today inside a confirmed booking: the
   whole-request error and nothing else *)
C17_Witness ==
    /\ BookingAnswered
    /\ request.form.date = today
    /\ request.form.start_time < request.form.end_time
    /\ response.errors = {NON_FIELD_ERRORS}
    /\ Len(response.non_field) = 1
    /\ \E b \in bookings : b.status = CONFIRMED /\ SameSlot(b, Candidate)

ItemsOf(store, user, venue) == {r \in store : r.user = user /\ r.venue = venue}

(* The (user, venue) pairs that have an item *)
Members(store) == {[user |-> r.user, venue |-> r.venue] : r \in store}

(* C15: a wishlist toggle for (user, venue) creates the item when the pair
   has none and deletes it when it has one, leaves the items of other pairs
   as they were, and a second toggle of the same pair right after it restores
   the membership from before the first; no pair ever has two items. *)
C15_ToggleMembership ==
    [][/\ \A u \in Users, s \in VenueSlugs :
            Cardinality(ItemsOf(wishlist', u, s)) <= 1
       /\ \A u \in Users, s \in VenueSlugs :
            WishlistToggle(u, s)
            => /\ ItemsOf(wishlist, u, s) = {}
                    => (Cardinality(ItemsOf(wishlist', u, s)) = 1 /\ response'.created)
               /\ ItemsOf(wishlist, u, s) # {}
                    => (ItemsOf(wishlist', u, s) = {} /\ ~response'.created)
               /\ wishlist' \ ItemsOf(wishlist', u, s) = wishlist \ ItemsOf(wishlist, u, s)
               /\ Members(Toggled(wishlist', u, s)) = Members(wishlist)]_vars

(* two toggles of one pair, the first saving and the second removing, leave
   the wishlist with the three items saved earlier and nothing else *)
C15_Witness ==
    /\ response.op = "wishlist" /\ response.code = "redirect" /\ ~response.created
    /\ handled = 2
    /\ wishlist = SeedWishlist

(* The venue passes the filters of the request other than max_price *)
MatchesOtherFilters(v) ==
    /\ request.q # <<>> => IContains(v.name, request.q)
    /\ request.city # <<>> => IExact(v.city, request.city)
    /\ request.category # "" => v.category = request.category

(* C18: for every valid filter submission that supplies a max_price m >= 0,
   0 included, the result of get_queryset is exactly the venues that match
   the other supplied filters and have price_per_hour <= m. *)
C18_MaxPriceBound ==
    (/\ response.op = "list" /\ response.valid
     /\ request.max_price # <<>>)
    => response.result =
          {v.pk : v \in {x \in venues :
                           /\ MatchesOtherFilters(x)
                           /\ x.price_per_hour <= 100 * ParseDigits(request.max_price)}}

====
